---- MODULE Spec2Model ----
(***************************************************************************)
(* State-machine model of cmd/templ/generatecmd/main.go: Run, its signal   *)
(* goroutine, runCmd's scan loop, processChanges' walk and worker pool,    *)
(* and the backoff between scans.                                          *)
(*                                                                         *)
(* Times are modification-time ticks 1..MaxTime; 0 is Go's zero time.Time  *)
(* (the value a missing key of fileNameToLastModTime reads as) and, for a  *)
(* file's mtime, "the file does not exist".  Durations are microseconds.   *)
(***************************************************************************)
EXTENDS Integers, Sequences, FiniteSets, TLC

\* Bounds of the model.
NumFiles == 2
MaxTime == 2
MaxWorkers == 2
MaxSignals == 2
MaxUp == 2
MaxVersionPart == 1
MaxRequire == 2
MaxDepth == 2

\* bo.InitialInterval = time.Millisecond * 500 and bo.MaxInterval = time.Second * 3.
InitialInterval == 500000
MaxInterval == 3000000

\* The .templ files directly under args.Path, in the lexical order WalkDir visits them.
Files == 1..NumFiles

VARIABLES
    args,              \* Arguments: Watch, FileName (set or not), Proxy (set or not), WorkerCount
    mtime,             \* file system: modification time of each file, 0 when the file does not exist
    ctxDone,           \* ctx of Run is cancelled
    notify,            \* signal.Notify(signalChan, os.Interrupt) is in force
    signalChan,        \* number of signals buffered in signalChan (capacity 1)
    signals,           \* interrupts delivered to the process so far
    sigpc,             \* position of Run's signal goroutine
    exited,            \* os.Exit(2) was called
    err,               \* Run's named result err (written by Run and by the signal goroutine)
    pc,                \* position of the main goroutine
    ret,               \* value runCmd returned
    runResult,         \* value Run returned
    fileNameToLastModTime,
    firstRunComplete,
    currentInterval,   \* bo's current interval
    changesFound,      \* processChanges: changesFound
    errs,              \* processChanges: errs
    listing,           \* entries WalkDir read from the root directory
    idx,               \* next entry of the walk: 0 is the root, i in Files a file
    worker,            \* per file: the goroutine processChanges started for it
    pending,           \* per file: the slice a worker's append(errs, err) is about to store
    walkPending,       \* the slice the walker's append(errs, err) (line 268) is about to store
    walkErr,           \* what WalkDir returned in the current scan: "nil", "traversal" or "Canceled"
    listenerStarts,    \* http.ListenAndServe goroutines started for the proxy
    browserStarts,     \* openURL goroutines started
    sse,               \* p.SendSSE("message", "reload") calls since the current scan began
    scans,             \* history: scans begun (saturates at 2)
    scansAfterCancel,  \* history: scans begun with ctx already cancelled (saturates at 2)
    changedScanDone,   \* history: a scan that found changes has returned
    sawCancel,         \* history: some check point returned ctx.Err() as context.Canceled
    delay,             \* history: the duration last slept, 0 once the next scan has begun
    goModLevel,        \* checkTemplVersion: the nearest directory above args.Path with a go.mod entry
    goMod,             \* checkTemplVersion: what os.Stat, os.ReadFile and modfile.Parse give for it
    templVersion,      \* templ.Version()
    vpc,               \* position inside checkTemplVersion
    dir,               \* checkTemplVersion: dir, as the number of levels above args.Path
    reqIdx,            \* checkTemplVersion: position of `for _, r := range mf.Require`
    versionErr,        \* what checkTemplVersion returned
    argsPath,          \* args.Path
    keepOrphanedFiles, \* args.KeepOrphanedFiles
    tree,              \* file system: names of the nested directories below the root, outermost first
    fs,                \* file system: per depth, the names of the files in that directory
    unreachable,       \* file system: b.templ is a symbolic link that os.Stat cannot follow
    tpc,               \* position of the tree walk
    agenda,            \* WalkDir: the entries still to visit, next first
    dirsRead,          \* history: depths of the directories whose entries WalkDir has read
    dispatched,        \* history: paths of the .templ files handed to a worker
    reaped,            \* history: artifacts the callback was called for, and what became of each
    walkResult,        \* what WalkDir returned
    sourceMaps,        \* args.GenerateSourceMapVisualisations
    artifactBefore,    \* file system: state of every _templ.go file before the scan
    artifact,          \* file system: per file, state of its _templ.go file
    sourceMapFile,     \* file system: per file, state of its _templ_sourcemap.html file
    gpc,               \* per file: position of its worker inside generate
    readBack,          \* history: per file, what the two os.ReadFile calls of the visualisation gave
    genResult          \* history: per file, what generate returned

vars == <<args, mtime, ctxDone, notify, signalChan, signals, sigpc, exited, err, pc, ret,
          runResult, fileNameToLastModTime, firstRunComplete, currentInterval, changesFound,
          errs, listing, idx, worker, pending, walkPending, walkErr, listenerStarts,
          browserStarts, sse, scans, scansAfterCancel, changedScanDone, sawCancel, delay,
          goModLevel, goMod, templVersion, vpc, dir, reqIdx, versionErr,
          argsPath, keepOrphanedFiles, tree, fs, unreachable, tpc, agenda, dirsRead,
          dispatched, reaped, walkResult,
          sourceMaps, artifactBefore, artifact, sourceMapFile, gpc, readBack, genResult>>

envVars == <<mtime, notify, signalChan, signals>>
sigVars == <<sigpc, exited>>
loopVars == <<fileNameToLastModTime, firstRunComplete, currentInterval, delay>>
scanVars == <<changesFound, errs, listing, idx, worker, pending, walkPending, walkErr>>
proxyVars == <<listenerStarts, browserStarts, sse>>
histVars == <<scans, scansAfterCancel, changedScanDone, sawCancel>>
versionVars == <<goModLevel, goMod, templVersion, vpc, dir, reqIdx, versionErr>>
treeVars == <<argsPath, keepOrphanedFiles, tree, fs, unreachable, tpc, agenda, dirsRead,
              dispatched, reaped, walkResult>>
genVars == <<sourceMaps, artifactBefore, artifact, sourceMapFile, gpc, readBack, genResult>>
otherVars == <<versionVars, treeVars, genVars>>
mainVars == <<args, envVars, ctxDone, sigVars, err, pc, ret, runResult, loopVars, scanVars,
              proxyVars, histVars>>

----------------------------------------------------------------------------
\* Error values.  file is the file whose worker produced the error, 0 for the walk.
\* TraversalErr stands for every error other than ctx.Err() that the WalkDir
\* callback returns or is handed: Lstat and ReadDir failures, "failed to get file
\* info" and the reaper's "failed to remove file".
Canceled(f) == [kind |-> "Canceled", file |-> f]
CompileErr(f) == [kind |-> "compile", file |-> f]
TraversalErr == [kind |-> "traversal", file |-> 0]

\* errors.Is(e, context.Canceled)
IsCanceled(e) == e.kind = "Canceled"

Sat(n) == IF n < 2 THEN n + 1 ELSE 2

----------------------------------------------------------------------------
\* Run, runCmd and processChanges with the main goroutine at position p and
\* nothing done yet.
RunAt(p) ==
    /\ args \in [Watch : BOOLEAN, FileName : BOOLEAN, Proxy : BOOLEAN,
                 WorkerCount : 1..MaxWorkers]
    /\ mtime = [f \in Files |-> 0]
    /\ ctxDone = FALSE
    /\ notify = TRUE
    /\ signalChan = 0
    /\ signals = 0
    /\ sigpc = "select"
    /\ exited = FALSE
    /\ err = "nil"
    /\ pc = p
    /\ ret = "none"
    /\ runResult = "none"
    /\ fileNameToLastModTime = [f \in Files |-> 0]
    /\ firstRunComplete = FALSE
    /\ currentInterval = InitialInterval
    /\ changesFound = 0
    /\ errs = <<>>
    /\ listing = {}
    /\ idx = 0
    /\ worker = [f \in Files |-> "idle"]
    /\ pending = [f \in Files |-> <<>>]
    /\ walkPending = <<>>
    /\ walkErr = "nil"
    /\ listenerStarts = 0
    /\ browserStarts = 0
    /\ sse = 0
    /\ scans = 0
    /\ scansAfterCancel = 0
    /\ changedScanDone = FALSE
    /\ sawCancel = FALSE
    /\ delay = 0

\* Semantic versions vMAJOR.MINOR.PATCH as <<major, minor, patch>>.
Versions == (0..MaxVersionPart) \X (0..MaxVersionPart) \X (0..MaxVersionPart)

\* An entry of mf.Require: r.Mod.Path is github.com/a-h/templ or not, r.Mod.Version.
Requirements ==
    [templ : {TRUE}, version : Versions] \cup {[templ |-> FALSE, version |-> <<0, 0, 0>>]}

RequireLists == UNION {[1..n -> Requirements] : n \in 0..MaxRequire}

\* What the nearest go.mod entry gives: os.Stat fails with an error other than
\* not-exist, os.ReadFile fails, modfile.Parse fails, or the parsed file with
\* mf.Module.Mod.Path == "github.com/a-h/templ" or not and mf.Require.
NoGoMod == [state |-> "none", own |-> FALSE, require |-> <<>>]

GoMods ==
    [state : {"ok"}, own : BOOLEAN, require : RequireLists]
        \cup [state : {"statFails", "readFails", "parseFails"}, own : {FALSE}, require : {<<>>}]

\* No call of checkTemplVersion is modelled.
VersionIdle ==
    /\ goModLevel = 0
    /\ goMod = NoGoMod
    /\ templVersion = <<0, 0, 0>>
    /\ vpc = "idle"
    /\ dir = 0
    /\ reqIdx = 0
    /\ versionErr = "none"

\* Strings are sequences of characters.
Vendor == <<"v", "e", "n", "d", "o", "r">>
NodeModules == <<"n", "o", "d", "e", "_", "m", "o", "d", "u", "l", "e", "s">>
DotGit == <<".", "g", "i", "t">>
UnderscoreOut == <<"_", "o", "u", "t">>
Src == <<"s", "r", "c">>
Home == <<"h", "o", "m", "e">>
TemplSuffix == <<".", "t", "e", "m", "p", "l">>
ArtifactSuffix == <<"_", "t", "e", "m", "p", "l", ".", "g", "o">>

\* Directory names and file names of the trees walked.
DirNames == {Vendor, NodeModules, DotGit, UnderscoreOut, Src}
FileNames == {<<"a">> \o TemplSuffix, <<"b">> \o TemplSuffix, <<"b">> \o ArtifactSuffix}

\* A cleaned path: "/" followed by the names when abs, the names joined by "/"
\* otherwise, "." being the relative path with no name.
DotPath == [abs |-> FALSE, names |-> <<>>]
Cwd == [abs |-> TRUE, names |-> <<Home>>]

\* No tree walk is modelled.
TreeIdle ==
    /\ argsPath = DotPath
    /\ keepOrphanedFiles = FALSE
    /\ tree = <<>>
    /\ fs = <<>>
    /\ unreachable = FALSE
    /\ tpc = "idle"
    /\ agenda = <<>>
    /\ dirsRead = {}
    /\ dispatched = {}
    /\ reaped = {}
    /\ walkResult = "none"

\* No worker's steps inside generate are modelled.
GenIdle ==
    /\ sourceMaps = FALSE
    /\ artifactBefore = "absent"
    /\ artifact = [f \in Files |-> "absent"]
    /\ sourceMapFile = [f \in Files |-> "absent"]
    /\ gpc = [f \in Files |-> "parse"]
    /\ readBack = [f \in Files |-> "none"]
    /\ genResult = [f \in Files |-> "none"]

\* The state in which the main goroutine is at position p with nothing done yet.
StateAt(p) == RunAt(p) /\ VersionIdle /\ TreeIdle /\ GenIdle

\* Run has set up ctx, signalChan and the signal goroutine and calls runCmd.
Init == StateAt("runCmd")

Alive == ~exited /\ pc # "done"
----------------------------------------------------------------------------
\* The environment: the file system under args.Path and the user's interrupts.

\* A file is created, modified, given another time, or deleted (t = 0).  The
\* walk is the only reader of the file system: a change is modelled at the loop
\* head before the scan that first sees it, and a deletion also between ReadDir's
\* listing of the file and the callback on it, where info.Info() sees it.
Touch(f, t) ==
    /\ ~exited
    /\ t # mtime[f]
    /\ pc = "loop" \/ (pc = "walk" /\ idx <= f /\ f \in listing /\ t = 0)
    /\ mtime' = [mtime EXCEPT ![f] = t]
    /\ UNCHANGED <<args, otherVars, ctxDone, notify, signalChan, signals, sigVars, err, pc, ret, runResult,
                   loopVars, scanVars, proxyVars, histVars>>

\* os.Interrupt is delivered: signal.Notify's sender does not block, so a signal
\* that finds signalChan full is dropped.
Interrupt ==
    /\ Alive
    /\ notify
    /\ signals < MaxSignals
    /\ signals' = signals + 1
    /\ signalChan' = 1
    /\ UNCHANGED <<args, otherVars, mtime, ctxDone, notify, sigVars, err, pc, ret, runResult,
                   loopVars, scanVars, proxyVars, histVars>>

----------------------------------------------------------------------------
\* Run's signal goroutine.

\* case <-signalChan: err = run.Stop().  The write to Run's named result is
\* not synchronised with Run's own use of err.
SignalFirst ==
    /\ ~exited
    /\ sigpc = "select"
    /\ signalChan > 0
    /\ signalChan' = 0
    /\ \E e \in {"nil", "stopErr"} : err' = e
    /\ sigpc' = "cancel"
    /\ UNCHANGED <<args, otherVars, mtime, ctxDone, notify, signals, exited, pc, ret, runResult,
                   loopVars, scanVars, proxyVars, histVars>>

\* cancel()
SignalCancel ==
    /\ ~exited
    /\ sigpc = "cancel"
    /\ ctxDone' = TRUE
    /\ sigpc' = "second"
    /\ UNCHANGED <<args, otherVars, envVars, exited, err, pc, ret, runResult,
                   loopVars, scanVars, proxyVars, histVars>>

\* case <-ctx.Done()
SignalCtxDone ==
    /\ ~exited
    /\ sigpc = "select"
    /\ ctxDone
    /\ sigpc' = "second"
    /\ UNCHANGED <<args, otherVars, envVars, ctxDone, exited, err, pc, ret, runResult,
                   loopVars, scanVars, proxyVars, histVars>>

\* <-signalChan; os.Exit(2)
SignalSecond ==
    /\ ~exited
    /\ sigpc = "second"
    /\ signalChan > 0
    /\ signalChan' = 0
    /\ exited' = TRUE
    /\ sigpc' = "exit"
    /\ UNCHANGED <<args, otherVars, mtime, ctxDone, notify, signals, err, pc, ret, runResult,
                   loopVars, scanVars, proxyVars, histVars>>

----------------------------------------------------------------------------
\* runCmd up to its loop.

runCmdEntry ==
    /\ Alive
    /\ pc = "runCmd"
    /\ IF args.Watch /\ args.FileName
       THEN ret' = "error" /\ pc' = "returned"
       ELSE /\ ret' = ret
            /\ pc' = IF args.FileName THEN "single" ELSE "loop"
    /\ UNCHANGED <<args, otherVars, envVars, ctxDone, sigVars, err, runResult,
                   loopVars, scanVars, proxyVars, histVars>>

\* return processSingleFile(ctx, w, "", args.FileName, ...): generate returns
\* ctx.Err() when the context is done, else the file compiles or fails.
runCmdSingleFile ==
    /\ Alive
    /\ pc = "single"
    /\ IF ctxDone
       THEN ret' = "Canceled" /\ sawCancel' = TRUE
       ELSE (\E r \in {"nil", "error"} : ret' = r) /\ sawCancel' = sawCancel
    /\ pc' = "returned"
    /\ UNCHANGED <<args, otherVars, envVars, ctxDone, sigVars, err, runResult,
                   loopVars, scanVars, proxyVars, scans, scansAfterCancel,
                   changedScanDone>>

----------------------------------------------------------------------------
\* processChanges: the walk.

\* Variant of LoopCondition: the watch flag ignored.
LoopConditionAlways == TRUE

\* for !firstRunComplete || args.Watch
LoopCondition == ~firstRunComplete \/ args.Watch

\* The loop head: either processChanges is entered (sem, wg and errs are made
\* fresh, WalkDir is called) or the loop ends and runCmd returns err, which is nil.
runCmdLoop ==
    /\ Alive
    /\ pc = "loop"
    /\ IF LoopCondition
       THEN /\ pc' = "walk"
            /\ idx' = 0
            /\ changesFound' = 0
            /\ errs' = <<>>
            /\ listing' = {}
            /\ worker' = [f \in Files |-> "idle"]
            /\ sse' = 0
            /\ delay' = 0
            /\ scans' = Sat(scans)
            /\ scansAfterCancel' = IF ctxDone THEN Sat(scansAfterCancel) ELSE scansAfterCancel
            /\ ret' = ret
       ELSE /\ pc' = "returned"
            /\ ret' = "nil"
            /\ UNCHANGED <<idx, changesFound, errs, listing, worker, sse, delay, scans,
                           scansAfterCancel>>
    /\ UNCHANGED <<args, otherVars, envVars, ctxDone, sigVars, err, runResult, fileNameToLastModTime,
                   firstRunComplete, currentInterval, pending, walkPending, walkErr, listenerStarts,
                   browserStarts, changedScanDone, sawCancel>>

\* Variant of WalkReturns: the error WalkDir returned is not appended.
WalkReturnsDropped(e) ==
    /\ walkPending' = errs
    /\ walkErr' = e.kind
    /\ pc' = "walkerr"
    /\ sawCancel' = (sawCancel \/ IsCanceled(e))

\* WalkDir returned e: the walker's errs = append(errs, err) reads errs here and
\* stores the result in WalkAppend, while workers may still be appending.
WalkReturns(e) ==
    /\ walkPending' = Append(errs, e)
    /\ walkErr' = e.kind
    /\ pc' = "walkerr"
    /\ sawCancel' = (sawCancel \/ IsCanceled(e))

\* WalkDir on the root: os.Lstat(root) fails and the callback is called with that
\* error; or the callback is called for the root directory (err nil, ctx.Err()
\* checked) and then ReadDir fails and the callback is called again with that
\* error; or ReadDir lists the files.
WalkRoot ==
    /\ Alive
    /\ pc = "walk"
    /\ idx = 0
    /\ \E root \in {"ok", "lstatFails", "readDirFails"} :
          IF root = "lstatFails"
          THEN WalkReturns(TraversalErr) /\ UNCHANGED <<idx, listing>>
          ELSE IF ctxDone
          THEN WalkReturns(Canceled(0)) /\ UNCHANGED <<idx, listing>>
          ELSE IF root = "readDirFails"
          THEN WalkReturns(TraversalErr) /\ UNCHANGED <<idx, listing>>
          ELSE /\ listing' = {f \in Files : mtime[f] > 0}
               /\ idx' = 1
               /\ UNCHANGED <<pc, walkPending, walkErr, sawCancel>>
    /\ UNCHANGED <<args, otherVars, envVars, ctxDone, sigVars, err, ret, runResult, loopVars,
                   changesFound, errs, worker, pending, proxyVars, scans,
                   scansAfterCancel, changedScanDone>>

\* Variant of ModifiedSince: the comparison not strict.
ModifiedSinceOrEqual(f) == mtime[f] >= fileNameToLastModTime[f]

\* fileInfo.ModTime().After(lastModTime)
ModifiedSince(f) == mtime[f] > fileNameToLastModTime[f]

\* The callback on the next file of the listing (lines 218-253): ctx.Err(),
\* info.Info() (which fails when the file is gone since ReadDir), the comparison
\* with the recorded time, and the recording.  A file that was not listed gets
\* no callback.
WalkFile ==
    /\ Alive
    /\ pc = "walk"
    /\ idx \in Files
    /\ IF idx \notin listing
       THEN /\ idx' = idx + 1
            /\ UNCHANGED <<pc, walkPending, walkErr, sawCancel, fileNameToLastModTime, changesFound>>
       ELSE IF ctxDone
       THEN WalkReturns(Canceled(0)) /\ UNCHANGED <<idx, fileNameToLastModTime, changesFound>>
       ELSE IF mtime[idx] = 0
       THEN WalkReturns(TraversalErr) /\ UNCHANGED <<idx, fileNameToLastModTime, changesFound>>
       ELSE IF ModifiedSince(idx)
       THEN /\ fileNameToLastModTime' = [fileNameToLastModTime EXCEPT ![idx] = mtime[idx]]
            /\ changesFound' = changesFound + 1
            /\ pc' = "acquire"
            /\ UNCHANGED <<idx, walkPending, walkErr, sawCancel>>
       ELSE /\ idx' = idx + 1
            /\ UNCHANGED <<pc, walkPending, walkErr, sawCancel, fileNameToLastModTime, changesFound>>
    /\ UNCHANGED <<args, otherVars, envVars, ctxDone, sigVars, err, ret, runResult, firstRunComplete,
                   currentInterval, delay, errs, listing, worker, pending, proxyVars, scans, scansAfterCancel, changedScanDone>>

\* Workers that hold a slot of sem: from sem <- struct{}{} to <-sem.
SemHolders == {f \in Files : worker[f] \in {"running", "appending"}}

\* Variant of SemHasSlot: the capacity off by one.
SemHasSlotOffByOne == Cardinality(SemHolders) <= args.WorkerCount

\* sem <- struct{}{} can proceed: sem has capacity maxWorkerCount.
SemHasSlot == Cardinality(SemHolders) < args.WorkerCount

\* sem <- struct{}{}; wg.Add(1); go func() {...}() (lines 254-262)
Dispatch ==
    /\ Alive
    /\ pc = "acquire"
    /\ SemHasSlot
    /\ worker' = [worker EXCEPT ![idx] = "running"]
    /\ idx' = idx + 1
    /\ pc' = "walk"
    /\ UNCHANGED <<args, otherVars, envVars, ctxDone, sigVars, err, ret, runResult, loopVars,
                   changesFound, errs, listing, pending, walkPending, walkErr, proxyVars,
                   histVars>>

\* WalkDir returns nil after the last entry.
WalkEnd ==
    /\ Alive
    /\ pc = "walk"
    /\ idx = NumFiles + 1
    /\ pc' = "wait"
    /\ UNCHANGED <<args, otherVars, envVars, ctxDone, sigVars, err, ret, runResult, loopVars,
                   scanVars, proxyVars, histVars>>

\* errs = append(errs, err) of line 268: the store.
WalkAppend ==
    /\ Alive
    /\ pc = "walkerr"
    /\ errs' = walkPending
    /\ walkPending' = <<>>
    /\ pc' = "wait"
    /\ UNCHANGED <<args, otherVars, envVars, ctxDone, sigVars, err, ret, runResult, loopVars,
                   changesFound, listing, idx, worker, pending, walkErr, proxyVars,
                   histVars>>

\* wg.Wait(); return changesFound, errs
Wait ==
    /\ Alive
    /\ pc = "wait"
    /\ SemHolders = {}
    /\ pc' = "post"
    /\ changedScanDone' = (changedScanDone \/ changesFound > 0)
    /\ UNCHANGED <<args, otherVars, envVars, ctxDone, sigVars, err, ret, runResult, loopVars,
                   scanVars, proxyVars, scans, scansAfterCancel, sawCancel>>

----------------------------------------------------------------------------
\* processChanges: the worker goroutines.

\* processSingleFile returns: generate returns ctx.Err() when the context is
\* done, else the file compiles or fails.  On success the worker releases its
\* slot and is done; on an error it reads errs for errs = append(errs, err).
WorkerRun(f) ==
    /\ ~exited
    /\ worker[f] = "running"
    /\ \/ /\ ctxDone
          /\ pending' = [pending EXCEPT ![f] = Append(errs, Canceled(f))]
          /\ worker' = [worker EXCEPT ![f] = "appending"]
          /\ sawCancel' = TRUE
       \/ /\ ~ctxDone
          /\ pending' = [pending EXCEPT ![f] = Append(errs, CompileErr(f))]
          /\ worker' = [worker EXCEPT ![f] = "appending"]
          /\ sawCancel' = sawCancel
       \/ /\ ~ctxDone
          /\ worker' = [worker EXCEPT ![f] = "doneOk"]
          /\ UNCHANGED <<pending, sawCancel>>
    /\ UNCHANGED <<args, otherVars, envVars, ctxDone, sigVars, err, pc, ret, runResult, loopVars,
                   changesFound, errs, listing, idx, walkPending, walkErr, proxyVars,
                   scans, scansAfterCancel, changedScanDone>>

\* The store of errs = append(errs, err), then <-sem and wg.Done().
WorkerAppend(f) ==
    /\ ~exited
    /\ worker[f] = "appending"
    /\ errs' = pending[f]
    /\ pending' = [pending EXCEPT ![f] = <<>>]
    /\ worker' = [worker EXCEPT ![f] = "doneErr"]
    /\ UNCHANGED <<args, otherVars, envVars, ctxDone, sigVars, err, pc, ret, runResult, loopVars,
                   changesFound, listing, idx, walkPending, walkErr, proxyVars, histVars>>

----------------------------------------------------------------------------
\* runCmd after a scan.

\* Variant of StartsProxy: the first-iteration guard left out.
StartsProxyEveryTime == args.Proxy

\* if !firstRunComplete && p != nil
StartsProxy == ~firstRunComplete /\ args.Proxy

\* Variant of SendsReload: on the first iteration only.
SendsReloadOnce == args.Proxy /\ ~firstRunComplete

\* if p != nil { p.SendSSE("message", "reload") }
SendsReload == args.Proxy

\* Variant of ReturnsOnError: the watch flag ignored.
ReturnsOnErrorAlways == TRUE

\* if !args.Watch { return fmt.Errorf("failed to process path: %v", ...) }
ReturnsOnError == ~args.Watch

\* Lines 141-185: the scan's errors end runCmd or are logged; after a scan with
\* changes the command is started, the reload event is sent and, on the first
\* iteration, the proxy listener and the browser task are started.
runCmdPostScan ==
    /\ Alive
    /\ pc = "post"
    /\ IF Len(errs) > 0 /\ IsCanceled(errs[1])
       THEN /\ ret' = "Canceled"
            /\ pc' = "returned"
            /\ UNCHANGED proxyVars
       ELSE IF Len(errs) > 0 /\ ReturnsOnError
       THEN /\ ret' = "error"
            /\ pc' = "returned"
            /\ UNCHANGED proxyVars
       ELSE /\ pc' = "backoff"
            /\ ret' = ret
            /\ IF changesFound > 0
               THEN /\ sse' = IF SendsReload THEN Sat(sse) ELSE sse
                    /\ listenerStarts' = IF StartsProxy THEN Sat(listenerStarts) ELSE listenerStarts
                    /\ browserStarts' = IF StartsProxy THEN Sat(browserStarts) ELSE browserStarts
               ELSE UNCHANGED proxyVars
    \* errs and the walk's state are processChanges' own and are dead from here on.
    \* checkTemplVersion (line 182) changes no state of runCmd: its result is only
    \* logged.  The step to "backoff" is the case in which it returns.
    /\ errs' = <<>>
    /\ listing' = {}
    /\ idx' = 0
    /\ worker' = [f \in Files |-> "idle"]
    /\ walkErr' = "nil"
    /\ UNCHANGED <<args, otherVars, envVars, ctxDone, sigVars, err, runResult, loopVars, changesFound,
                   pending, walkPending, histVars>>

\* Variant of SleepsAfterScan: the first iteration sleeps too.
SleepsAfterScanAlways == TRUE

\* if firstRunComplete { ...; time.Sleep(bo.NextBackOff()) }
SleepsAfterScan == firstRunComplete

\* bo.NextBackOff()'s result for current interval cur: a random value of
\* [cur - 0.5*cur, cur + 0.5*cur], RandomizationFactor being left at the
\* library's 0.5.  The ends and the middle of the range stand for it.
NextBackOff(cur) == {cur - cur \div 2, cur, cur + cur \div 2}

\* What NextBackOff leaves as current interval: cur * 1.5 (the library's
\* Multiplier), capped at MaxInterval.
incrementCurrentInterval(cur) ==
    IF 3 * cur >= 2 * MaxInterval THEN MaxInterval ELSE (3 * cur) \div 2

\* Variant of ResetsBackoff: the reset left out.
ResetsBackoffNever == FALSE

\* if changesFound > 0 { bo.Reset() }
ResetsBackoff == changesFound > 0

\* Lines 186-193.
runCmdBackoff ==
    /\ Alive
    /\ pc = "backoff"
    /\ IF SleepsAfterScan
       THEN LET cur == IF ResetsBackoff THEN InitialInterval ELSE currentInterval
            IN  /\ \E d \in NextBackOff(cur) : delay' = d
                /\ currentInterval' = incrementCurrentInterval(cur)
       ELSE UNCHANGED <<currentInterval, delay>>
    /\ firstRunComplete' = TRUE
    /\ pc' = "loop"
    /\ UNCHANGED <<args, otherVars, envVars, ctxDone, sigVars, err, ret, runResult,
                   fileNameToLastModTime, scanVars, proxyVars, histVars>>

\* One iteration of the loop up to line 185 taken as a single step, for a scan
\* whose errors do not end runCmd: of its effects only changesFound reaches the
\* backoff.
ScanOutcome ==
    /\ Alive
    /\ pc = "loop"
    /\ LoopCondition
    /\ \E n \in 0..NumFiles : changesFound' = n
    /\ pc' = "backoff"
    /\ UNCHANGED <<args, otherVars, envVars, ctxDone, sigVars, err, ret, runResult, loopVars, errs,
                   listing, idx, worker, pending, walkPending, walkErr, proxyVars, histVars>>

----------------------------------------------------------------------------
\* Run after runCmd.

\* err = runCmd(ctx, w, args)
RunAssign ==
    /\ Alive
    /\ pc = "returned"
    /\ err' = ret
    /\ pc' = "check"
    /\ UNCHANGED <<args, otherVars, envVars, ctxDone, sigVars, ret, runResult, loopVars, scanVars,
                   proxyVars, histVars>>

\* if errors.Is(err, context.Canceled) { return nil }; return err
RunCheck ==
    /\ Alive
    /\ pc = "check"
    /\ err' = IF err = "Canceled" THEN "nil" ELSE err
    /\ pc' = "deferStop"
    /\ UNCHANGED <<args, otherVars, envVars, ctxDone, sigVars, ret, runResult, loopVars, scanVars,
                   proxyVars, histVars>>

\* deferred: signal.Stop(signalChan)
RunDeferStop ==
    /\ Alive
    /\ pc = "deferStop"
    /\ notify' = FALSE
    /\ pc' = "deferCancel"
    /\ UNCHANGED <<args, otherVars, mtime, signalChan, signals, ctxDone, sigVars, err, ret, runResult,
                   loopVars, scanVars, proxyVars, histVars>>

\* deferred: cancel()
RunDeferCancel ==
    /\ Alive
    /\ pc = "deferCancel"
    /\ ctxDone' = TRUE
    /\ pc' = "exit"
    /\ UNCHANGED <<args, otherVars, envVars, sigVars, err, ret, runResult, loopVars, scanVars,
                   proxyVars, histVars>>

\* Run returns the value of its named result.
RunExit ==
    /\ Alive
    /\ pc = "exit"
    /\ runResult' = err
    /\ pc' = "done"
    /\ UNCHANGED <<args, otherVars, envVars, ctxDone, sigVars, err, ret, loopVars, scanVars,
                   proxyVars, histVars>>

----------------------------------------------------------------------------
\* checkTemplVersion.  Directories are numbered by their distance above
\* args.Path; directory MaxUp is the root of the file system, where
\* filepath.Dir(dir) == dir.  The file system does not change during the call.

\* semver.Compare(v, w): -1, 0 or +1.
Compare(v, w) ==
    IF v = w THEN 0
    ELSE LET i == CHOOSE k \in 1..3 : v[k] # w[k] /\ \A j \in 1..(k - 1) : v[j] = w[j]
         IN  IF v[i] < w[i] THEN 0 - 1 ELSE 1

\* Variant of VersionVerdict: an older declared version passes.
VersionVerdictOlderPasses(cmp) == IF cmp > 0 THEN "generatorOlder" ELSE "nil"

\* Lines 457-463: what checkTemplVersion returns for cmp.
VersionVerdict(cmp) ==
    IF cmp < 0 THEN "generatorNewer"
    ELSE IF cmp > 0 THEN "generatorOlder"
    ELSE "nil"

\* The head of `for { ... }`: os.Stat(filepath.Join(dir, "go.mod")), and the
\* move to the parent directory when there is no go.mod.
VersionStat ==
    /\ vpc = "stat"
    /\ IF dir = goModLevel /\ goMod.state = "statFails"
       THEN vpc' = "returned" /\ versionErr' = "statFails" /\ dir' = dir
       ELSE IF dir # goModLevel \/ goMod.state = "none"
       THEN IF dir = MaxUp
            THEN vpc' = "returned" /\ versionErr' = "noGoMod" /\ dir' = dir
            ELSE vpc' = "stat" /\ versionErr' = versionErr /\ dir' = dir + 1
       ELSE vpc' = "read" /\ versionErr' = versionErr /\ dir' = dir
    /\ UNCHANGED <<goModLevel, goMod, templVersion, reqIdx>>
    /\ UNCHANGED <<mainVars, treeVars, genVars>>

\* Lines 438-453: os.ReadFile, modfile.Parse, and the test of the module path.
VersionRead ==
    /\ vpc = "read"
    /\ IF goMod.state \in {"readFails", "parseFails"}
       THEN vpc' = "returned" /\ versionErr' = goMod.state /\ reqIdx' = reqIdx
       ELSE IF goMod.own
       THEN vpc' = "returned" /\ versionErr' = "nil" /\ reqIdx' = reqIdx
       ELSE vpc' = "require" /\ versionErr' = versionErr /\ reqIdx' = 1
    /\ UNCHANGED <<goModLevel, goMod, templVersion, dir>>
    /\ UNCHANGED <<mainVars, treeVars, genVars>>

\* Lines 454-466: one step of `for _, r := range mf.Require`; when the range is
\* exhausted, control reaches the end of the body of `for { ... }` and goes back
\* to its head with dir unchanged.
VersionRequire ==
    /\ vpc = "require"
    /\ IF reqIdx > Len(goMod.require)
       THEN vpc' = "stat" /\ reqIdx' = 0 /\ versionErr' = versionErr
       ELSE IF goMod.require[reqIdx].templ
       THEN /\ vpc' = "returned"
            /\ versionErr' = VersionVerdict(Compare(goMod.require[reqIdx].version, templVersion))
            /\ reqIdx' = reqIdx
       ELSE vpc' = "require" /\ reqIdx' = reqIdx + 1 /\ versionErr' = versionErr
    /\ UNCHANGED <<goModLevel, goMod, templVersion, dir>>
    /\ UNCHANGED <<mainVars, treeVars, genVars>>

----------------------------------------------------------------------------
\* processChanges over a tree of directories: shouldSkipDir and the reaper of
\* orphaned artifacts.  The root holds directory tree[1], which holds tree[2],
\* and so on; every directory holds the files fs gives for its depth.  Every
\* directory can be read (the failures of Lstat and ReadDir are in WalkRoot) and
\* every .templ file met is new to fileNameToLastModTime, as in a first scan.

\* strings.HasPrefix, strings.HasSuffix, strings.TrimSuffix
HasPrefix(str, prefix) == Len(str) >= Len(prefix) /\ SubSeq(str, 1, Len(prefix)) = prefix

HasSuffix(str, suffix) ==
    Len(str) >= Len(suffix) /\ SubSeq(str, Len(str) - Len(suffix) + 1, Len(str)) = suffix

TrimSuffix(str, suffix) ==
    IF HasSuffix(str, suffix) THEN SubSeq(str, 1, Len(str) - Len(suffix)) ELSE str

\* path.IsAbs
IsAbs(path) == path.abs

\* filepath.Abs
Abs(path) == IF path.abs THEN path ELSE [abs |-> TRUE, names |-> Cwd.names \o path.names]

\* filepath.Join(path, name), as WalkDir builds the path of a directory's entry.
Join(path, name) == [path EXCEPT !.names = Append(@, name)]

\* _, name := path.Split(path): what follows the final slash, the whole of a
\* path without slash.
SplitName(path) ==
    IF path.names # <<>> THEN path.names[Len(path.names)]
    ELSE IF path.abs THEN <<>>
    ELSE <<".">>

\* shouldSkipDir(dir), dir being the path the callback was called with.
shouldSkipDir(path) ==
    IF path = DotPath THEN FALSE
    ELSE IF path = [abs |-> FALSE, names |-> <<Vendor>>]
            \/ path = [abs |-> FALSE, names |-> <<NodeModules>>] THEN TRUE
    ELSE HasPrefix(SplitName(path), <<".">>) \/ HasPrefix(SplitName(path), <<"_">>)

\* The characters of the names in byte order, for the order of ReadDir's entries.
Alphabet ==
    <<".", "_", "a", "b", "c", "d", "e", "g", "h", "i", "l", "m", "n", "o", "p", "r", "s",
      "t", "u", "v">>

Code(c) == CHOOSE i \in 1..Len(Alphabet) : Alphabet[i] = c

NameLess(a, b) ==
    LET n == IF Len(a) < Len(b) THEN Len(a) ELSE Len(b)
        diff == {i \in 1..n : a[i] # b[i]}
    IN  IF diff = {} THEN Len(a) < Len(b)
        ELSE LET i == CHOOSE k \in diff : \A j \in diff : k <= j
             IN  Code(a[i]) < Code(b[i])

RECURSIVE SortNames(_)
SortNames(names) ==
    IF names = {} THEN <<>>
    ELSE LET least == CHOOSE x \in names : \A y \in names \ {x} : NameLess(x, y)
         IN  <<least>> \o SortNames(names \ {least})

\* os.ReadDir of the directory entry e: its entries sorted by name, as WalkDir
\* visits them.
ReadDir(e) ==
    LET subdirs == IF e.depth < MaxDepth THEN {tree[e.depth + 1]} ELSE {}
        sorted == SortNames(fs[e.depth] \cup subdirs)
    IN  [i \in 1..Len(sorted) |->
            [path |-> Join(e.path, sorted[i]),
             isDir |-> sorted[i] \in subdirs,
             depth |-> IF sorted[i] \in subdirs THEN e.depth + 1 ELSE e.depth]]

\* The names of a path with its last name replaced.
WithName(path, name) == [path EXCEPT !.names[Len(path.names)] = name]

\* strings.TrimSuffix(fileName, "_templ.go") + ".templ"
SiblingOf(path) == WithName(path, TrimSuffix(SplitName(path), ArtifactSuffix) \o TemplSuffix)

\* The entry named by path, a file at the given depth, exists.
Exists(path, depth) == SplitName(path) \in fs[depth]

\* _, err := os.Stat(path); err == nil.  Stat follows symbolic links: on an
\* entry that exists it still fails when the link cannot be followed.
StatSucceeds(path, depth) ==
    Exists(path, depth) /\ ~(unreachable /\ SplitName(path) = <<"b">> \o TemplSuffix)

\* Lines 120-125, and WalkDir's call on the root.
runCmdAbs ==
    /\ tpc = "abs"
    /\ LET path == IF IsAbs(argsPath) THEN argsPath ELSE Abs(argsPath)
       IN  /\ argsPath' = path
           /\ agenda' = <<[path |-> path, isDir |-> TRUE, depth |-> 0]>>
    /\ tpc' = "walk"
    /\ UNCHANGED <<keepOrphanedFiles, tree, fs, unreachable, dirsRead, dispatched, reaped,
                   walkResult>>
    /\ UNCHANGED <<mainVars, versionVars, genVars>>

\* The callback on the next entry (lines 218-265) and, for a directory that is
\* not skipped, the reading of its entries.
WalkEntry ==
    /\ tpc = "walk"
    /\ agenda # <<>>
    /\ LET e == Head(agenda)
           isArtifact == HasSuffix(SplitName(e.path), ArtifactSuffix)
           isTempl == HasSuffix(SplitName(e.path), TemplSuffix)
       IN  IF ctxDone
           THEN /\ walkResult' = "Canceled"
                /\ tpc' = "done"
                /\ UNCHANGED <<agenda, fs, dirsRead, dispatched, reaped>>
           ELSE IF e.isDir /\ shouldSkipDir(e.path)
           THEN /\ agenda' = Tail(agenda)
                /\ UNCHANGED <<tpc, fs, dirsRead, dispatched, reaped, walkResult>>
           ELSE IF e.isDir
           THEN /\ agenda' = ReadDir(e) \o Tail(agenda)
                /\ dirsRead' = dirsRead \cup {e.depth}
                /\ UNCHANGED <<tpc, fs, dispatched, reaped, walkResult>>
           ELSE IF ~keepOrphanedFiles /\ isArtifact
           THEN IF StatSucceeds(SiblingOf(e.path), e.depth)
                THEN /\ reaped' = reaped \cup
                            {[path |-> e.path, sibling |-> TRUE, outcome |-> "kept"]}
                     /\ agenda' = Tail(agenda)
                     /\ UNCHANGED <<tpc, fs, dirsRead, dispatched, walkResult>>
                ELSE \E removed \in BOOLEAN :
                        /\ reaped' = reaped \cup
                               {[path |-> e.path,
                                 sibling |-> Exists(SiblingOf(e.path), e.depth),
                                 outcome |-> IF removed THEN "deletedAndWarned"
                                                        ELSE "removeFails"]}
                        /\ IF removed
                           THEN /\ fs' = [fs EXCEPT ![e.depth] = @ \ {SplitName(e.path)}]
                                /\ agenda' = Tail(agenda)
                                /\ UNCHANGED <<tpc, walkResult>>
                           ELSE /\ walkResult' = "removeFails"
                                /\ tpc' = "done"
                                /\ UNCHANGED <<agenda, fs>>
                        /\ UNCHANGED <<dirsRead, dispatched>>
           ELSE /\ dispatched' = IF isTempl THEN dispatched \cup {e.path} ELSE dispatched
                /\ reaped' = IF isArtifact
                              THEN reaped \cup
                                     {[path |-> e.path,
                                       sibling |-> Exists(SiblingOf(e.path), e.depth),
                                       outcome |-> "ignored"]}
                              ELSE reaped
                /\ agenda' = Tail(agenda)
                /\ UNCHANGED <<tpc, fs, dirsRead, walkResult>>
    /\ UNCHANGED <<argsPath, keepOrphanedFiles, tree, unreachable>>
    /\ UNCHANGED <<mainVars, versionVars, genVars>>

\* WalkDir returns nil: nothing is left to visit.
WalkReturnsNil ==
    /\ tpc = "walk"
    /\ agenda = <<>>
    /\ walkResult' = "nil"
    /\ tpc' = "done"
    /\ UNCHANGED <<argsPath, keepOrphanedFiles, tree, fs, unreachable, agenda, dirsRead,
                   dispatched, reaped>>
    /\ UNCHANGED <<mainVars, versionVars, genVars>>

----------------------------------------------------------------------------
\* processSingleFile and generate, step by step, for the workers of a scan.

\* generate returns the error e, of the given kind, and the worker reads errs
\* for errs = append(errs, err).
GenFails(f, e, kind) ==
    /\ pending' = [pending EXCEPT ![f] = Append(errs, e)]
    /\ worker' = [worker EXCEPT ![f] = "appending"]
    /\ genResult' = [genResult EXCEPT ![f] = kind]
    /\ gpc' = [gpc EXCEPT ![f] = "done"]
    /\ sawCancel' = (sawCancel \/ IsCanceled(e))

\* generate returns a nil error: the worker releases its slot and is done.
GenSucceeds(f) ==
    /\ worker' = [worker EXCEPT ![f] = "doneOk"]
    /\ genResult' = [genResult EXCEPT ![f] = "nil"]
    /\ gpc' = [gpc EXCEPT ![f] = "done"]
    /\ UNCHANGED <<pending, sawCancel>>

\* Lines 324-349: ctx.Err(), parser.Parse, generator.Generate and format.Source.
\* None of them writes a file; "generate" stands for a failure of either of
\* the last two.
GenParse(f) ==
    /\ ~exited
    /\ worker[f] = "running"
    /\ gpc[f] = "parse"
    /\ IF ctxDone
       THEN GenFails(f, Canceled(f), "Canceled")
       ELSE \/ GenFails(f, CompileErr(f), "parse")
            \/ GenFails(f, CompileErr(f), "generate")
            \/ /\ gpc' = [gpc EXCEPT ![f] = "write"]
               /\ UNCHANGED <<pending, worker, genResult, sawCancel>>
    /\ UNCHANGED <<sourceMaps, artifactBefore, artifact, sourceMapFile, readBack>>
    /\ UNCHANGED <<args, envVars, ctxDone, sigVars, err, pc, ret, runResult, loopVars,
                   changesFound, errs, listing, idx, walkPending, walkErr, proxyVars,
                   scans, scansAfterCancel, changedScanDone, versionVars, treeVars>>

\* if generateSourceMapVisualisations { err = generateSourceMapVisualisation(...) }
CallsVisualisation == sourceMaps

\* Lines 351-358: os.WriteFile, which on a failure leaves the artifact as it
\* was or truncated; then the visualisation when it is asked for.
GenWrite(f) ==
    /\ ~exited
    /\ worker[f] = "running"
    /\ gpc[f] = "write"
    /\ \/ /\ \E left \in {artifact[f], "truncated"} : artifact' = [artifact EXCEPT ![f] = left]
          /\ GenFails(f, CompileErr(f), "write")
       \/ /\ artifact' = [artifact EXCEPT ![f] = "written"]
          /\ IF CallsVisualisation
             THEN /\ gpc' = [gpc EXCEPT ![f] = "visualise"]
                  /\ UNCHANGED <<pending, worker, genResult, sawCancel>>
             ELSE GenSucceeds(f)
    /\ UNCHANGED <<sourceMaps, artifactBefore, sourceMapFile, readBack>>
    /\ UNCHANGED <<args, envVars, ctxDone, sigVars, err, pc, ret, runResult, loopVars,
                   changesFound, errs, listing, idx, walkPending, walkErr, proxyVars,
                   scans, scansAfterCancel, changedScanDone, versionVars, treeVars>>

\* Lines 378-383: what generateSourceMapVisualisation returns after wg.Wait()
\* for the errors of the two reads: "read" for a non-nil error, "nil" for
\* `return templErr` with templErr nil, "go on" when neither test fires.
ReadsVerdict(templErr, goErr) ==
    IF templErr THEN "read"
    ELSE IF goErr THEN "nil"
    ELSE "go on"

\* generateSourceMapVisualisation (lines 361-395): ctx.Err(); the two
\* os.ReadFile calls, joined by wg.Wait(); os.Create of the html file, which
\* truncates it; the rendering.
GenVisualise(f) ==
    /\ ~exited
    /\ worker[f] = "running"
    /\ gpc[f] = "visualise"
    /\ IF ctxDone
       THEN GenFails(f, Canceled(f), "Canceled") /\ UNCHANGED <<readBack, sourceMapFile>>
       ELSE \E templErr \in BOOLEAN, goErr \in BOOLEAN :
               /\ readBack' = [readBack EXCEPT ![f] =
                                  IF templErr /\ goErr THEN "bothFail"
                                  ELSE IF templErr THEN "templFails"
                                  ELSE IF goErr THEN "goFails"
                                  ELSE "ok"]
               /\ IF ReadsVerdict(templErr, goErr) = "read"
                  THEN GenFails(f, CompileErr(f), "read") /\ UNCHANGED sourceMapFile
                  ELSE IF ReadsVerdict(templErr, goErr) = "nil"
                  THEN GenSucceeds(f) /\ UNCHANGED sourceMapFile
                  ELSE \/ GenFails(f, CompileErr(f), "create") /\ UNCHANGED sourceMapFile
                       \/ /\ sourceMapFile' = [sourceMapFile EXCEPT ![f] = "truncated"]
                          /\ GenFails(f, CompileErr(f), "render")
                       \/ /\ sourceMapFile' = [sourceMapFile EXCEPT ![f] = "written"]
                          /\ GenSucceeds(f)
    /\ UNCHANGED <<sourceMaps, artifactBefore, artifact>>
    /\ UNCHANGED <<args, envVars, ctxDone, sigVars, err, pc, ret, runResult, loopVars,
                   changesFound, errs, listing, idx, walkPending, walkErr, proxyVars,
                   scans, scansAfterCancel, changedScanDone, versionVars, treeVars>>

\* The callback on one more entry after the .templ files: an orphaned artifact
\* (lines 230-242).  os.Remove succeeds, the warning is logged and WalkDir
\* returns nil, or it fails and WalkDir returns "failed to remove file".
WalkOrphan ==
    /\ Alive
    /\ pc = "walk"
    /\ idx = NumFiles + 1
    /\ IF ctxDone
       THEN WalkReturns(Canceled(0))
       ELSE \/ WalkReturns(TraversalErr)
            \/ pc' = "wait" /\ UNCHANGED <<walkPending, walkErr, sawCancel>>
    /\ UNCHANGED <<args, otherVars, envVars, ctxDone, sigVars, err, ret, runResult, loopVars,
                   changesFound, errs, listing, idx, worker, pending, proxyVars, scans,
                   scansAfterCancel, changedScanDone>>

----------------------------------------------------------------------------
Next ==
    \/ \E f \in Files, t \in 0..MaxTime : Touch(f, t)
    \/ Interrupt
    \/ SignalFirst
    \/ SignalCancel
    \/ SignalCtxDone
    \/ SignalSecond
    \/ runCmdEntry
    \/ runCmdSingleFile
    \/ runCmdLoop
    \/ WalkRoot
    \/ WalkFile
    \/ Dispatch
    \/ WalkEnd
    \/ WalkAppend
    \/ Wait
    \/ \E f \in Files : WorkerRun(f)
    \/ \E f \in Files : WorkerAppend(f)
    \/ runCmdPostScan
    \/ runCmdBackoff
    \/ RunAssign
    \/ RunCheck
    \/ RunDeferStop
    \/ RunDeferCancel
    \/ RunExit

Spec == Init /\ [][Next]_vars

\* The backoff schedule on its own: watch mode from the loop head on, each scan
\* reduced to its changesFound.
BackoffInit == StateAt("loop") /\ args.Watch /\ ~args.FileName

BackoffNext == ScanOutcome \/ runCmdBackoff

BackoffSpec == BackoffInit /\ [][BackoffNext]_vars

\* One call of checkTemplVersion(args.Path), for every place and content of the
\* nearest go.mod and every running version.  The goroutine that runs it keeps
\* running, hence the weak fairness.
VersionInit ==
    /\ RunAt("post")
    /\ TreeIdle
    /\ GenIdle
    /\ args = [Watch |-> TRUE, FileName |-> FALSE, Proxy |-> FALSE, WorkerCount |-> 1]
    /\ goModLevel \in 0..MaxUp
    /\ goMod \in GoMods \cup {NoGoMod}
    /\ goMod = NoGoMod => goModLevel = 0
    /\ templVersion \in Versions
    /\ vpc = "stat"
    /\ dir = 0
    /\ reqIdx = 0
    /\ versionErr = "none"

VersionNext == VersionStat \/ VersionRead \/ VersionRequire

VersionSpec == VersionInit /\ [][VersionNext]_vars /\ WF_vars(VersionNext)

\* One scan of a tree, for every args.Path, directory names and files, with the
\* interrupt that cancels ctx.
TreeInit ==
    /\ RunAt("runCmd")
    /\ args = [Watch |-> FALSE, FileName |-> FALSE, Proxy |-> FALSE, WorkerCount |-> 1]
    /\ VersionIdle
    /\ GenIdle
    /\ argsPath \in {DotPath} \cup [abs : BOOLEAN, names : {<<n>> : n \in DirNames}]
    /\ keepOrphanedFiles \in BOOLEAN
    /\ tree \in [1..MaxDepth -> DirNames]
    /\ \E files \in (SUBSET FileNames) \ {{}} : fs = [d \in 0..MaxDepth |-> files]
    /\ unreachable \in BOOLEAN
    /\ unreachable => (<<"b">> \o TemplSuffix) \in fs[0]
    /\ tpc = "abs"
    /\ agenda = <<>>
    /\ dirsRead = {}
    /\ dispatched = {}
    /\ reaped = {}
    /\ walkResult = "none"

TreeNext ==
    \/ runCmdAbs
    \/ WalkEntry
    \/ WalkReturnsNil
    \/ Interrupt
    \/ SignalFirst
    \/ SignalCancel

TreeSpec == TreeInit /\ [][TreeNext]_vars

\* One scan, in one-shot mode, of a root whose .templ files are all new, with
\* the workers' steps inside generate.  The first interrupt may have been
\* received already, cancel() being still to come.
GenInit ==
    /\ RunAt("loop")
    /\ ~args.Watch /\ ~args.FileName /\ ~args.Proxy
    /\ VersionIdle
    /\ TreeIdle
    /\ sourceMaps \in BOOLEAN
    /\ artifactBefore \in {"absent", "written"}
    /\ artifact = [f \in Files |-> artifactBefore]
    /\ sourceMapFile = [f \in Files |-> "absent"]
    /\ gpc = [f \in Files |-> "parse"]
    /\ readBack = [f \in Files |-> "none"]
    /\ genResult = [f \in Files |-> "none"]

GenNext ==
    \/ \E f \in Files : Touch(f, 1)
    \/ Interrupt
    \/ SignalFirst
    \/ SignalCancel
    \/ runCmdLoop
    \/ WalkRoot
    \/ WalkFile
    \/ Dispatch
    \/ WalkEnd
    \/ WalkOrphan
    \/ WalkAppend
    \/ Wait
    \/ \E f \in Files : GenParse(f)
    \/ \E f \in Files : GenWrite(f)
    \/ \E f \in Files : GenVisualise(f)
    \/ \E f \in Files : WorkerAppend(f)

GenSpec == GenInit /\ [][GenNext]_vars

----------------------------------------------------------------------------
\* C1: at no time do more processSingleFile calls run than args.WorkerCount.
C1_WorkerBound ==
    Cardinality({f \in Files : worker[f] = "running"}) <= args.WorkerCount

\* C1 witness: every slot is taken by a running worker and the walk is blocked
\* on sem with one more changed file.
C1_Witness ==
    /\ pc = "acquire"
    /\ Cardinality({f \in Files : worker[f] = "running"}) = args.WorkerCount

\* C2: when processChanges returns, errs holds exactly one error for each
\* dispatched file whose processSingleFile failed and none for any other file.
C2_OneErrorPerFailedFile ==
    pc = "post" =>
        \A f \in Files :
            Cardinality({i \in 1..Len(errs) : errs[i].file = f})
                = (IF worker[f] = "doneErr" THEN 1 ELSE 0)

\* C3: when a check point has returned context.Canceled, Run returns nil.
C3_CancelIsCleanShutdown ==
    (pc = "done" /\ sawCancel) => runResult = "nil"

\* C4: a scan begun after the context was cancelled is the last one: no second
\* scan begins with the context cancelled.
C4_NoScanAfterCancelledScan == scansAfterCancel <= 1

\* C5: the proxy listener and the browser task are each started at most once,
\* and not before a scan that found changes has returned.
C5_ProxyStartedOnce ==
    /\ listenerStarts <= 1
    /\ browserStarts <= 1
    /\ (listenerStarts > 0 \/ browserStarts > 0) => changedScanDone

\* C5 witness: a later scan found changes again with the proxy already started.
C5_Witness ==
    /\ pc = "backoff"
    /\ firstRunComplete
    /\ changesFound > 0
    /\ listenerStarts = 1
    /\ browserStarts = 1

\* C6: in watch mode with a proxy, once a scan that found changes has been
\* handled, the proxy listener and the browser task have been started.
C6_FirstChangedScanStartsProxy ==
    (pc = "backoff" /\ args.Watch /\ args.Proxy /\ changesFound > 0)
        => (listenerStarts = 1 /\ browserStarts = 1)

\* C7 as claimed: with a proxy, every scan that found changes is followed by
\* exactly one reload event and a scan that found none by no reload event,
\* whether the loop goes on or runCmd returns after the scan.
C7_ReloadAfterEveryChangedScan ==
    (args.Proxy /\ pc \in {"backoff", "returned"})
        => sse = (IF changesFound > 0 THEN 1 ELSE 0)

\* C7 amended: with a proxy, a scan after which the loop goes on is followed by
\* exactly one reload event when it found changes and by none when it found
\* none; a scan whose errors end runCmd is followed by none; a reload event is
\* sent only when no worker of the scan is still running or appending.
C7_ReloadAfterContinuingScan ==
    /\ (args.Proxy /\ pc = "backoff") => sse = (IF changesFound > 0 THEN 1 ELSE 0)
    /\ (pc = "returned" /\ ret \in {"Canceled", "error"}) => sse = 0
    /\ sse > 0 => \A f \in Files : worker[f] \notin {"running", "appending"}
    /\ ~args.Proxy => sse = 0

\* C7 witness: a later scan of a watch found changes and its reload event is sent.
C7_Witness ==
    /\ pc = "backoff"
    /\ args.Proxy
    /\ firstRunComplete
    /\ changesFound > 0
    /\ sse = 1

SleepStep == pc = "backoff" /\ pc' = "loop" /\ firstRunComplete

\* C9 as claimed: the delay slept is the initial interval at the first sleep and
\* after a scan with changes, never exceeds the maximum interval, and after a
\* zero-change scan is not shorter than the delay slept before.
C9_DelaysFollowRule ==
    [][SleepStep =>
        /\ (changesFound > 0 \/ delay = 0) => delay' = InitialInterval
        /\ delay' <= MaxInterval
        /\ (changesFound = 0 /\ delay > 0) => delay' >= delay]_vars

\* C9 amended: the delay slept lies within half and one and a half times bo's
\* current interval; that interval is the initial interval at the first sleep
\* and after a scan with changes, never exceeds the maximum interval, and does
\* not decrease over zero-change scans.
C9_IntervalsFollowRule ==
    [][SleepStep =>
        /\ delay = 0 => currentInterval = InitialInterval
        /\ changesFound > 0 =>
              (2 * delay' >= InitialInterval /\ 2 * delay' <= 3 * InitialInterval)
        /\ changesFound = 0 =>
              (2 * delay' >= currentInterval /\ 2 * delay' <= 3 * currentInterval)
        /\ changesFound = 0 => currentInterval' >= currentInterval
        /\ currentInterval <= MaxInterval
        /\ currentInterval' <= MaxInterval]_vars

\* C9 witness: the current interval has reached the maximum and the delay slept
\* is longer than it.
C9_Witness ==
    /\ pc = "loop"
    /\ currentInterval = MaxInterval
    /\ delay > MaxInterval

\* C10: a file is marked changed (and then dispatched) only when its
\* modification time is strictly greater than the recorded time, which is set
\* to it at that moment; recorded times change at no other step and never
\* decrease (so no entry is removed); a worker is started only for the file
\* just marked.
C10_DispatchOnlyIfNewer ==
    [][/\ \A f \in Files : fileNameToLastModTime'[f] >= fileNameToLastModTime[f]
       /\ (fileNameToLastModTime' # fileNameToLastModTime) => (pc = "walk" /\ pc' = "acquire")
       /\ (pc = "walk" /\ pc' = "acquire") =>
              /\ mtime[idx] > fileNameToLastModTime[idx]
              /\ fileNameToLastModTime'[idx] = mtime[idx]
       /\ \A f \in Files : (worker[f] # "running" /\ worker'[f] = "running") =>
              (pc = "acquire" /\ idx = f)]_vars

\* C10 witness: a later scan has passed a file whose time is not newer than the
\* recorded one, and has not dispatched it.
C10_Witness ==
    /\ scans = 2
    /\ pc = "walk"
    /\ idx = 2
    /\ 1 \in listing
    /\ mtime[1] > 0
    /\ fileNameToLastModTime[1] >= mtime[1]
    /\ worker[1] = "idle"

NextScanBegins == pc = "loop" /\ pc' = "walk" /\ scans >= 1

\* C17 as claimed: in watch mode a scan that found no changes, the first scan
\* included, is followed by a sleep before the next scan begins.
C17_SleepAfterEveryIdleScan ==
    [][(NextScanBegins /\ args.Watch /\ changesFound = 0) => delay > 0]_vars

\* C17 amended: in watch mode every scan but the first of the run is followed
\* by a sleep before the next scan begins, whether it found changes or not;
\* the first scan is followed by the second without a sleep.
C17_SleepAfterLaterScans ==
    [][(NextScanBegins /\ args.Watch) => (delay > 0 <=> scans >= 2)]_vars

\* C17 witness: a later scan of a watch found no changes and the loop has slept.
C17_Witness ==
    /\ pc = "loop"
    /\ args.Watch
    /\ scans = 2
    /\ changesFound = 0
    /\ delay > 0

\* C20: os.Exit(2) is called only after two interrupts have been delivered.
C20_HardExitNeedsTwoSignals == exited => signals >= 2

\* C18 as claimed: a scan whose walk ended on a traversal error returns that
\* error as the only element of errs.
C18_TraversalErrorIsSoleError ==
    (pc = "post" /\ walkErr = "traversal") => errs = <<TraversalErr>>

\* C18 amended: once WalkDir has returned an error no further entry is visited
\* and no further file is dispatched; the scan returns at most one traversal
\* error, every other element of errs being the error of a file dispatched
\* before the walk stopped; and when no worker of the scan failed, the
\* traversal error is the only element.
C18_TraversalErrorEndsWalk ==
    [][/\ walkErr # "nil" =>
              /\ idx' = idx \/ pc = "post"
              /\ \A f \in Files : (worker[f] = "idle" /\ pc # "post") => worker'[f] = "idle"
              /\ fileNameToLastModTime' = fileNameToLastModTime
       /\ (pc = "wait" /\ pc' = "post" /\ walkErr = "traversal") =>
              /\ Cardinality({i \in 1..Len(errs) : errs[i].kind = "traversal"}) <= 1
              /\ \A i \in 1..Len(errs) :
                     errs[i].kind # "traversal" => worker[errs[i].file] = "doneErr"
              /\ (\A f \in Files : worker[f] # "doneErr") => errs = <<TraversalErr>>]_vars

\* C18 witness: a scan returns a traversal error after the compile error of a
\* file dispatched earlier in the same walk.
C18_Witness ==
    /\ pc = "post"
    /\ walkErr = "traversal"
    /\ errs = <<CompileErr(1), TraversalErr>>

\* The go.mod found declares github.com/a-h/templ among its requirements.
TemplDeclared == \E i \in 1..Len(goMod.require) : goMod.require[i].templ

\* The version of the first requirement that names github.com/a-h/templ.
DeclaredVersion ==
    goMod.require[CHOOSE i \in 1..Len(goMod.require) :
                      /\ goMod.require[i].templ
                      /\ \A j \in 1..(i - 1) : ~goMod.require[j].templ].version

\* C13 as claimed: with declared version d and running version r,
\* checkTemplVersion passes when d < r and when d = r and fails with the
\* upgrade-the-CLI error when d > r; it passes when go.mod is templ's own.
C13_OlderDeclaredPasses ==
    (vpc = "returned" /\ goMod.state = "ok") =>
        /\ goMod.own => versionErr = "nil"
        /\ (~goMod.own /\ TemplDeclared) =>
              LET cmp == Compare(DeclaredVersion, templVersion)
              IN  /\ cmp < 0 => versionErr = "nil"
                  /\ cmp = 0 => versionErr = "nil"
                  /\ cmp > 0 => versionErr = "generatorOlder"

\* C13 amended: checkTemplVersion passes only when d = r; when d < r it fails
\* with the error that tells to upgrade the templ dependency of the project,
\* when d > r with the error that tells to upgrade the CLI; it passes when
\* go.mod is templ's own, whatever it requires.
C13_OnlyEqualPasses ==
    (vpc = "returned" /\ goMod.state = "ok") =>
        /\ goMod.own => versionErr = "nil"
        /\ (~goMod.own /\ TemplDeclared) =>
              LET cmp == Compare(DeclaredVersion, templVersion)
              IN  /\ cmp < 0 => versionErr = "generatorNewer"
                  /\ cmp = 0 => versionErr = "nil"
                  /\ cmp > 0 => versionErr = "generatorOlder"

\* C13 witness: a go.mod two directories up requires, after another module, a
\* templ older than the running one, and the check has failed.
C13_Witness ==
    /\ vpc = "returned"
    /\ goModLevel = 2
    /\ ~goMod.own
    /\ Len(goMod.require) = 2
    /\ ~goMod.require[1].templ
    /\ Compare(DeclaredVersion, templVersion) < 0
    /\ versionErr = "generatorNewer"

\* C16: when the nearest go.mod is found, read and parsed, is not templ's own
\* and does not require templ, checkTemplVersion returns nil.
C16_UndeclaredDependencyPasses ==
    (vpc = "stat" /\ goMod.state = "ok" /\ ~goMod.own /\ ~TemplDeclared)
        ~> (vpc = "returned" /\ versionErr = "nil")

\* A directory name the walk is to leave out.
ExcludedName(name) ==
    name \in {Vendor, NodeModules} \/ HasPrefix(name, <<".">>) \/ HasPrefix(name, <<"_">>)

\* The file at path lies below a directory, other than the root, with such a name.
BelowExcluded(path) ==
    \E i \in (Len(argsPath.names) + 1)..(Len(path.names) - 1) : ExcludedName(path.names[i])

\* The depth of the directory that holds the file at path.
DepthOf(path) == Len(path.names) - Len(argsPath.names) - 1

\* C11: no file below a directory, other than the root, that is named vendor or
\* node_modules or whose name starts with . or _ is dispatched to a worker or
\* handed to the reaper; and a walk that returns nil has read the root
\* directory, whatever the root's own name.
C11_ExcludedDirsOnlyBelowRoot ==
    tpc \in {"walk", "done"} =>
        /\ \A path \in dispatched \cup {r.path : r \in reaped} : ~BelowExcluded(path)
        /\ (tpc = "done" /\ walkResult = "nil") => 0 \in dirsRead

\* C12: with KeepOrphanedFiles unset, an artifact the callback is called for
\* is kept when its .templ sibling exists at that moment and is removed, with
\* the warning, when the sibling does not exist (unless os.Remove fails, which
\* is the walk's error); an artifact is gone from its directory exactly when
\* it was removed with the warning, and the walk returns the removal error
\* only when a removal failed; with KeepOrphanedFiles set no artifact is
\* touched.
C12_ReapsExactlyOrphans ==
    /\ \A r \in reaped :
          /\ keepOrphanedFiles => r.outcome = "ignored"
          /\ (~keepOrphanedFiles /\ r.sibling) => r.outcome = "kept"
          /\ (~keepOrphanedFiles /\ ~r.sibling) => r.outcome \in {"deletedAndWarned", "removeFails"}
          /\ r.outcome = "deletedAndWarned" <=> SplitName(r.path) \notin fs[DepthOf(r.path)]
    /\ walkResult = "removeFails" => \E r \in reaped : r.outcome = "removeFails"

\* A worker has left generate for file f.
GenReturned(f) == worker[f] \in {"appending", "doneOk", "doneErr"}

\* C19: with the source-map visualisation asked for, whenever reading back
\* the source or the artifact fails, generate returns an error for that file
\* and the artifact it has just written stays in place.
C19_ReadBackFailureIsError ==
    \A f \in Files :
        (GenReturned(f) /\ readBack[f] \in {"templFails", "goFails", "bothFail"})
            => (genResult[f] = "read" /\ artifact[f] = "written")

\* The number of errors of errs that name file f.
ErrorsOf(f) == Cardinality({i \in 1..Len(errs) : errs[i].file = f})

\* C15: after a scan in which one file fails to parse and another is valid,
\* every file that failed to parse has one error among the scan's errors and
\* its artifact as it was before the scan, every valid file has its artifact
\* written, and without a cancellation every dispatched file was compiled.
C15_FailingFileIsIsolated ==
    (/\ pc = "post"
     /\ \E f \in Files : genResult[f] = "parse"
     /\ \E g \in Files : genResult[g] = "nil")
        => \A f \in Files :
              /\ genResult[f] = "parse" => (ErrorsOf(f) = 1 /\ artifact[f] = artifactBefore)
              /\ genResult[f] = "nil" => artifact[f] = "written"
              /\ (f \in listing /\ walkErr = "nil" /\ ~ctxDone) => genResult[f] # "Canceled" /\ GenReturned(f)

====
